---- MODULE Spec2Model ----
(***************************************************************************)
(* The json-render playground demo: the line-delimited JSON patch stream   *)
(* consumer (parsePatch), the patch applier (applyPatch) and the Demo      *)
(* component's orchestration of the scripted simulation and of the live    *)
(* request (stopGeneration, the two timer effects, handleSubmit), and the  *)
(* renderer (renderElement, renderPreview).                                *)
(*                                                                         *)
(* Text.  A JavaScript string is a sequence of one-character strings.  The *)
(* text of a response body is a sequence of lexemes, each lexeme being the *)
(* sequence of its characters: a punctuation mark, a white-space character,*)
(* a line feed, or a whole JSON string / number / literal token.  A chunk  *)
(* boundary may fall between any two lexemes.                              *)
(*                                                                         *)
(* Values.  A JavaScript value is a record [t |-> type tag, v |-> payload].*)
(***************************************************************************)
EXTENDS Integers, Sequences, FiniteSets, TLC

\* ------------------------------------------------------------------------
\* JavaScript values
\* ------------------------------------------------------------------------

Undefined == [t |-> "undefined", v |-> <<>>]

Null == [t |-> "null", v |-> <<>>]

Bool(b) == [t |-> "boolean", v |-> b]

Num(n) == [t |-> "number", v |-> n]

Str(s) == [t |-> "string", v |-> s]

Arr(a) == [t |-> "array", v |-> a]

Obj(f) == [t |-> "object", v |-> f]

\* The empty property map / the empty elements record ({}).
NoProps == <<>>

\* JavaScript truthiness, as tested by `if (patch)` and `key && ...`.
Truthy(x) ==
  CASE x.t = "undefined" -> FALSE
    [] x.t = "null"      -> FALSE
    [] x.t = "boolean"   -> x.v
    [] x.t = "number"    -> x.v # 0
    [] x.t = "string"    -> x.v # <<>>
    [] OTHER             -> TRUE

\* Property read x.name: an own property of an object, undefined otherwise
\* (the names read here, op / path / value, are on no prototype).
Get(x, name) ==
  IF x.t = "object" /\ name \in DOMAIN x.v THEN x.v[name] ELSE Undefined

\* ------------------------------------------------------------------------
\* String operations
\* ------------------------------------------------------------------------

\* s.startsWith(p)
StartsWith(s, p) == Len(s) >= Len(p) /\ SubSeq(s, 1, Len(p)) = p

\* s.slice(n)
Slice(s, n) == SubSeq(s, n + 1, Len(s))

\* Index of the first element of s equal to sep at or after i, Len(s)+1 if none.
RECURSIVE IndexOf(_, _, _)
IndexOf(s, sep, i) ==
  IF i > Len(s) THEN Len(s) + 1
  ELSE IF s[i] = sep THEN i
  ELSE IndexOf(s, sep, i + 1)

\* s.split(sep)[0]
SplitFirst(s, sep) == SubSeq(s, 1, IndexOf(s, sep, 1) - 1)

\* s.split(sep): the pieces between separators, always at least one piece.
RECURSIVE Split(_, _)
Split(s, sep) ==
  LET k == IndexOf(s, sep, 1) IN
    IF k > Len(s) THEN <<s>>
    ELSE <<SubSeq(s, 1, k - 1)>> \o Split(SubSeq(s, k + 1, Len(s)), sep)

\* The white-space lexemes String.prototype.trim removes (other than the
\* line feed, which never occurs inside a line).
SP == <<" ">>

CR == <<"\r">>

LF == <<"\n">>

IsSpace(lx) == lx \in {SP, CR, LF}

RECURSIVE TrimStart(_)
TrimStart(s) ==
  IF s # <<>> /\ IsSpace(Head(s)) THEN TrimStart(Tail(s)) ELSE s

RECURSIVE TrimEnd(_)
TrimEnd(s) ==
  IF s # <<>> /\ IsSpace(s[Len(s)]) THEN TrimEnd(SubSeq(s, 1, Len(s) - 1)) ELSE s

\* line.trim()
Trim(s) == TrimEnd(TrimStart(s))

\* ------------------------------------------------------------------------
\* JSON.parse over a lexeme sequence
\* ------------------------------------------------------------------------

QUOTE == "\""

LBRACE == <<"{">>

RBRACE == <<"}">>

LBRACK == <<"[">>

RBRACK == <<"]">>

COLON == <<":">>

COMMA == <<",">>

SLASH == <<"/">>

Digits == {"0", "1", "2", "3", "4", "5", "6", "7", "8", "9"}

DigitVal(c) ==
  CASE c = "0" -> 0 [] c = "1" -> 1 [] c = "2" -> 2 [] c = "3" -> 3
    [] c = "4" -> 4 [] c = "5" -> 5 [] c = "6" -> 6 [] c = "7" -> 7
    [] c = "8" -> 8 [] c = "9" -> 9

\* A JSON string token without escapes: "..." with no quote, backslash or
\* line break inside.
IsStringLexeme(lx) ==
  /\ Len(lx) >= 2
  /\ lx[1] = QUOTE
  /\ lx[Len(lx)] = QUOTE
  /\ \A i \in 2..(Len(lx) - 1) : lx[i] \notin {QUOTE, "\\", "\n", "\r"}

StringOf(lx) == SubSeq(lx, 2, Len(lx) - 1)

\* A JSON integer token: digits, no leading zero.
IsNumberLexeme(lx) ==
  /\ Len(lx) >= 1
  /\ \A i \in 1..Len(lx) : lx[i] \in Digits
  /\ (Len(lx) > 1 => lx[1] # "0")

RECURSIVE NumberOf(_)
NumberOf(lx) ==
  IF lx = <<>> THEN 0
  ELSE 10 * NumberOf(SubSeq(lx, 1, Len(lx) - 1)) + DigitVal(lx[Len(lx)])

\* The result of a parsing step: the value read and the index after it.
ParseOk(val, next) == [ok |-> TRUE, val |-> val, next |-> next]

ParseFail == [ok |-> FALSE, val |-> Undefined, next |-> 0]

RECURSIVE SkipWs(_, _)
SkipWs(toks, i) ==
  IF i <= Len(toks) /\ IsSpace(toks[i]) THEN SkipWs(toks, i + 1) ELSE i

Is(toks, i, lx) == i <= Len(toks) /\ toks[i] = lx

RECURSIVE ParseValue(_, _), MemberAt(_, _, _), ElementAt(_, _, _)

\* After a member's value r: ',' and the next member, or '}'.
MemberNext(toks, e, acc) ==
  CASE Is(toks, e, COMMA) -> MemberAt(toks, SkipWs(toks, e + 1), acc)
    [] Is(toks, e, RBRACE) -> ParseOk(Obj(acc), e + 1)
    [] OTHER -> ParseFail

\* A member's value r, named by the string token at i; a repeated name
\* keeps the last value.
MemberValue(toks, i, r, acc) ==
  IF ~r.ok THEN ParseFail
  ELSE MemberNext(toks, SkipWs(toks, r.next), (StringOf(toks[i]) :> r.val) @@ acc)

\* member := string ':' value
MemberColon(toks, i, c, acc) ==
  IF ~Is(toks, c, COLON) THEN ParseFail
  ELSE MemberValue(toks, i, ParseValue(toks, c + 1), acc)

MemberAt(toks, i, acc) ==
  IF ~(i <= Len(toks) /\ IsStringLexeme(toks[i])) THEN ParseFail
  ELSE MemberColon(toks, i, SkipWs(toks, i + 1), acc)

\* object := '{' '}' | '{' member (',' member)* '}'
ObjectAt(toks, j) ==
  IF Is(toks, j, RBRACE) THEN ParseOk(Obj(NoProps), j + 1)
  ELSE MemberAt(toks, j, NoProps)

\* After an element: ',' and the next element, or ']'.
ElementNext(toks, e, acc) ==
  CASE Is(toks, e, COMMA) -> ElementAt(toks, e + 1, acc)
    [] Is(toks, e, RBRACK) -> ParseOk(Arr(acc), e + 1)
    [] OTHER -> ParseFail

ElementValue(toks, r, acc) ==
  IF ~r.ok THEN ParseFail
  ELSE ElementNext(toks, SkipWs(toks, r.next), Append(acc, r.val))

ElementAt(toks, i, acc) == ElementValue(toks, ParseValue(toks, i), acc)

\* array := '[' ']' | '[' value (',' value)* ']'
ArrayAt(toks, j) ==
  IF Is(toks, j, RBRACK) THEN ParseOk(Arr(<<>>), j + 1)
  ELSE ElementAt(toks, j, <<>>)

\* value := object | array | string | number | true | false | null
ValueAt(toks, i) ==
  IF i > Len(toks) THEN ParseFail
  ELSE CASE toks[i] = LBRACE -> ObjectAt(toks, SkipWs(toks, i + 1))
         [] toks[i] = LBRACK -> ArrayAt(toks, SkipWs(toks, i + 1))
         [] toks[i] = <<"n", "u", "l", "l">> -> ParseOk(Null, i + 1)
         [] toks[i] = <<"t", "r", "u", "e">> -> ParseOk(Bool(TRUE), i + 1)
         [] toks[i] = <<"f", "a", "l", "s", "e">> -> ParseOk(Bool(FALSE), i + 1)
         [] IsStringLexeme(toks[i]) -> ParseOk(Str(StringOf(toks[i])), i + 1)
         [] IsNumberLexeme(toks[i]) -> ParseOk(Num(NumberOf(toks[i])), i + 1)
         [] OTHER -> ParseFail

ParseValue(toks, i) == ValueAt(toks, SkipWs(toks, i))

\* The text must be exactly one value.
WholeText(text, r) ==
  IF r.ok /\ SkipWs(text, r.next) > Len(text) THEN r ELSE ParseFail

\* JSON.parse(text): the value of the text, or a SyntaxError (ok = FALSE).
JSONParse(text) == WholeText(text, ParseValue(text, 1))

\* ------------------------------------------------------------------------
\* parsePatch and applyPatch
\* ------------------------------------------------------------------------

\* try { return JSON.parse(trimmed) } catch { return null }
parsedOrNull(r) == IF r.ok THEN r.val ELSE Null

parseTrimmed(trimmed) ==
  IF trimmed = <<>> \/ StartsWith(trimmed, <<SLASH, SLASH>>) THEN Null
  ELSE parsedOrNull(JSONParse(trimmed))

\* parsePatch(line): null for an empty line, a comment line and a line
\* JSON.parse throws on; otherwise whatever JSON.parse returns.
parsePatch(line) == parseTrimmed(Trim(line))

PathKey == <<"p", "a", "t", "h">>

OpKey == <<"o", "p">>

ValueKey == <<"v", "a", "l", "u", "e">>

RootPath == <<"/", "r", "o", "o", "t">>

ElementsPrefix == <<"/", "e", "l", "e", "m", "e", "n", "t", "s", "/">>

OpSet == Str(<<"s", "e", "t">>)

OpAdd == Str(<<"a", "d", "d">>)

\* The empty tree { root: "", elements: {} }.
EmptyTree == [root |-> Str(<<>>), elements |-> NoProps]

\* patch.path.startsWith throws a TypeError unless patch.path is a string:
\* a non-string path is not "/root", and has no callable startsWith.
applyPatchThrows(patch) == Get(patch, PathKey).t # "string"

\* applyPatch merging the fields of the new element into the element
\* already stored under the key.
applyPatchMerging(tree, patch) ==
  LET path == Get(patch, PathKey).v
      op == Get(patch, OpKey)
      value == Get(patch, ValueKey)
      key == SplitFirst(Slice(path, Len(ElementsPrefix)), "/")
  IN IF path = RootPath THEN [tree EXCEPT !.root = value]
     ELSE IF StartsWith(path, ElementsPrefix) /\ key # <<>> /\ (op = OpSet \/ op = OpAdd)
       THEN IF key \in DOMAIN tree.elements /\ tree.elements[key].t = "object"
                 /\ value.t = "object"
              THEN [tree EXCEPT !.elements = (key :> Obj(value.v @@ tree.elements[key].v)) @@ @]
              ELSE [tree EXCEPT !.elements = (key :> value) @@ @]
       ELSE tree

\* applyPatch setting the root only while the tree has none.
applyPatchRootOnce(tree, patch) ==
  LET path == Get(patch, PathKey).v
      op == Get(patch, OpKey)
      value == Get(patch, ValueKey)
      key == SplitFirst(Slice(path, Len(ElementsPrefix)), "/")
  IN IF path = RootPath
       THEN IF Truthy(tree.root) THEN tree ELSE [tree EXCEPT !.root = value]
     ELSE IF StartsWith(path, ElementsPrefix) /\ key # <<>> /\ (op = OpSet \/ op = OpAdd)
       THEN [tree EXCEPT !.elements = (key :> value) @@ @]
       ELSE tree

\* applyPatch(tree, patch) for a patch whose path is a string: a copy of
\* the tree with the root replaced, or one element replaced, or unchanged.
applyPatch(tree, patch) ==
  LET path == Get(patch, PathKey).v
      op == Get(patch, OpKey)
      value == Get(patch, ValueKey)
      newTree == [root |-> tree.root, elements |-> tree.elements]
  IN IF path = RootPath THEN [newTree EXCEPT !.root = value]
     ELSE IF StartsWith(path, ElementsPrefix)
       THEN LET key == SplitFirst(Slice(path, Len(ElementsPrefix)), "/") IN
         IF key # <<>> /\ (op = OpSet \/ op = OpAdd)
           THEN [newTree EXCEPT !.elements = (key :> value) @@ tree.elements]
           ELSE newTree
       ELSE newTree

\* The loop body stopping the stream at a line parsePatch returns null for.
applyParsedHalting(currentTree, patch) ==
  IF ~Truthy(patch) \/ applyPatchThrows(patch)
    THEN [threw |-> TRUE, applied |-> FALSE, tree |-> currentTree]
  ELSE [threw |-> FALSE, applied |-> TRUE, tree |-> applyPatch(currentTree, patch)]

\* applyPatch on objects.  The memory is a sequence of objects, an address
\* its index: a tree object holds its root and the address of its elements
\* object, an elements object maps keys to values.  A call leaves the
\* memory as it made it, and the address of the tree it returns.
HeapOf(tree) == <<[root |-> tree.root, elements |-> 2], tree.elements>>

Deref(mem, t) == [root |-> mem[t].root, elements |-> mem[mem[t].elements]]

\* const newTree = { ...tree }: the elements object shared with the input.
applyPatchHeapShared(mem, t, patch) ==
  LET path == Get(patch, PathKey).v
      op == Get(patch, OpKey)
      value == Get(patch, ValueKey)
      newTree == Len(mem) + 1
      copied == Append(mem, [root |-> mem[t].root, elements |-> mem[t].elements])
  IN IF path = RootPath
       THEN [mem |-> [copied EXCEPT ![newTree].root = value], ret |-> newTree]
     ELSE IF StartsWith(path, ElementsPrefix)
       THEN LET key == SplitFirst(Slice(path, Len(ElementsPrefix)), "/") IN
         IF key # <<>> /\ (op = OpSet \/ op = OpAdd)
           THEN [mem |-> [copied EXCEPT ![copied[newTree].elements] = (key :> value) @@ @],
                 ret |-> newTree]
           ELSE [mem |-> copied, ret |-> newTree]
       ELSE [mem |-> copied, ret |-> newTree]

\* const newTree = { ...tree, elements: { ...tree.elements } }; the writes
\* go to newTree.root and to newTree.elements[key].
applyPatchHeap(mem, t, patch) ==
  LET path == Get(patch, PathKey).v
      op == Get(patch, OpKey)
      value == Get(patch, ValueKey)
      newTree == Len(mem) + 1
      copied == mem \o <<[root |-> mem[t].root, elements |-> Len(mem) + 2],
                         mem[mem[t].elements]>>
  IN IF path = RootPath
       THEN [mem |-> [copied EXCEPT ![newTree].root = value], ret |-> newTree]
     ELSE IF StartsWith(path, ElementsPrefix)
       THEN LET key == SplitFirst(Slice(path, Len(ElementsPrefix)), "/") IN
         IF key # <<>> /\ (op = OpSet \/ op = OpAdd)
           THEN [mem |-> [copied EXCEPT ![copied[newTree].elements] = (key :> value) @@ @],
                 ret |-> newTree]
           ELSE [mem |-> copied, ret |-> newTree]
       ELSE [mem |-> copied, ret |-> newTree]

\* if (patch) { currentTree = applyPatch(currentTree, patch); ... }.
\* threw: applyPatch raised the TypeError; applied: the patch was applied
\* and the tree and the line are published.
applyParsed(currentTree, patch) ==
  IF ~Truthy(patch)
    THEN [threw |-> FALSE, applied |-> FALSE, tree |-> currentTree]
  ELSE IF applyPatchThrows(patch)
    THEN [threw |-> TRUE, applied |-> FALSE, tree |-> currentTree]
  ELSE [threw |-> FALSE, applied |-> TRUE, tree |-> applyPatch(currentTree, patch)]

\* One pass of the loop body over a line.
applyLine(currentTree, line) == applyParsed(currentTree, parsePatch(line))

\* The loop state after the pass r over line: shown collects the trimmed
\* lines handed to setStreamLines.
AfterLine(st, line, r) ==
  [tree |-> r.tree,
   shown |-> IF r.applied THEN Append(st.shown, Trim(line)) ELSE st.shown,
   threw |-> r.threw]

\* for (const line of lines) { ... }: the lines in order until one throws.
RECURSIVE ProcessLines(_, _)
ProcessLines(st, lines) ==
  IF lines = <<>> \/ st.threw THEN st
  ELSE ProcessLines(AfterLine(st, Head(lines), applyLine(st.tree, Head(lines))),
                    Tail(lines))

LoopStart(currentTree) == [tree |-> currentTree, shown |-> <<>>, threw |-> FALSE]

\* ------------------------------------------------------------------------
\* The scripted fixture
\* ------------------------------------------------------------------------

\* SIMULATION_PROMPT
SIMULATION_PROMPT ==
  <<"C", "r", "e", "a", "t", "e", " ", "a", " ", "c", "o", "n", "t", "a", "c", "t", " ", "f", "o", "r", "m", " ", "w", "i", "t", "h">> \o
  <<" ", "n", "a", "m", "e", ",", " ", "e", "m", "a", "i", "l", ",", " ", "a", "n", "d", " ", "m", "e", "s", "s", "a", "g", "e">>

StageTree1 ==
  [root |-> Str(<<"c", "a", "r", "d">>),
   elements |->
     (<<"c", "a", "r", "d">> :> Obj(
       (<<"k", "e", "y">> :> Str(<<"c", "a", "r", "d">>)) @@
       (<<"t", "y", "p", "e">> :> Str(<<"C", "a", "r", "d">>)) @@
       (<<"p", "r", "o", "p", "s">> :> Obj(
         (<<"t", "i", "t", "l", "e">> :> Str(<<"C", "o", "n", "t", "a", "c", "t", " ", "U", "s">>)) @@
         (<<"m", "a", "x", "W", "i", "d", "t", "h">> :> Str(<<"m", "d">>)))) @@
       (<<"c", "h", "i", "l", "d", "r", "e", "n">> :> Arr(<<>>))))]

StageStream1 ==
  <<
    <<"{">>, <<"\"", "o", "p", "\"">>, <<":">>,
    <<"\"", "s", "e", "t", "\"">>, <<",">>,
    <<"\"", "p", "a", "t", "h", "\"">>, <<":">>,
    <<"\"", "/", "r", "o", "o", "t", "\"">>, <<",">>,
    <<"\"", "v", "a", "l", "u", "e", "\"">>, <<":">>,
    <<"\"", "c", "a", "r", "d", "\"">>, <<"}">> >>

StageTree2 ==
  [root |-> Str(<<"c", "a", "r", "d">>),
   elements |->
     (<<"c", "a", "r", "d">> :> Obj(
       (<<"k", "e", "y">> :> Str(<<"c", "a", "r", "d">>)) @@
       (<<"t", "y", "p", "e">> :> Str(<<"C", "a", "r", "d">>)) @@
       (<<"p", "r", "o", "p", "s">> :> Obj(
         (<<"t", "i", "t", "l", "e">> :> Str(<<"C", "o", "n", "t", "a", "c", "t", " ", "U", "s">>)) @@
         (<<"m", "a", "x", "W", "i", "d", "t", "h">> :> Str(<<"m", "d">>)))) @@
       (<<"c", "h", "i", "l", "d", "r", "e", "n">> :> Arr(<<Str(<<"n", "a", "m", "e">>)>>)))) @@
     (<<"n", "a", "m", "e">> :> Obj(
       (<<"k", "e", "y">> :> Str(<<"n", "a", "m", "e">>)) @@
       (<<"t", "y", "p", "e">> :> Str(<<"I", "n", "p", "u", "t">>)) @@
       (<<"p", "r", "o", "p", "s">> :> Obj(
         (<<"l", "a", "b", "e", "l">> :> Str(<<"N", "a", "m", "e">>)) @@
         (<<"n", "a", "m", "e">> :> Str(<<"n", "a", "m", "e">>))))))]

StageStream2 ==
  <<
    <<"{">>, <<"\"", "o", "p", "\"">>, <<":">>,
    <<"\"", "a", "d", "d", "\"">>, <<",">>,
    <<"\"", "p", "a", "t", "h", "\"">>, <<":">>,
    <<"\"", "/", "e", "l", "e", "m", "e", "n", "t", "s", "/", "c", "a", "r", "d", "\"">>,
    <<",">>, <<"\"", "v", "a", "l", "u", "e", "\"">>, <<":">>, <<"{">>,
    <<"\"", "k", "e", "y", "\"">>, <<":">>,
    <<"\"", "c", "a", "r", "d", "\"">>, <<",">>,
    <<"\"", "t", "y", "p", "e", "\"">>, <<":">>,
    <<"\"", "C", "a", "r", "d", "\"">>, <<",">>,
    <<"\"", "p", "r", "o", "p", "s", "\"">>, <<":">>, <<"{">>,
    <<"\"", "t", "i", "t", "l", "e", "\"">>, <<":">>,
    <<"\"", "C", "o", "n", "t", "a", "c", "t", " ", "U", "s", "\"">>,
    <<",">>, <<"\"", "m", "a", "x", "W", "i", "d", "t", "h", "\"">>, <<":">>,
    <<"\"", "m", "d", "\"">>, <<"}">>, <<",">>,
    <<"\"", "c", "h", "i", "l", "d", "r", "e", "n", "\"">>, <<":">>, <<"[">>,
    <<"\"", "n", "a", "m", "e", "\"">>, <<"]">>, <<"}">>, <<"}">> >>

StageTree3 ==
  [root |-> Str(<<"c", "a", "r", "d">>),
   elements |->
     (<<"c", "a", "r", "d">> :> Obj(
       (<<"k", "e", "y">> :> Str(<<"c", "a", "r", "d">>)) @@
       (<<"t", "y", "p", "e">> :> Str(<<"C", "a", "r", "d">>)) @@
       (<<"p", "r", "o", "p", "s">> :> Obj(
         (<<"t", "i", "t", "l", "e">> :> Str(<<"C", "o", "n", "t", "a", "c", "t", " ", "U", "s">>)) @@
         (<<"m", "a", "x", "W", "i", "d", "t", "h">> :> Str(<<"m", "d">>)))) @@
       (<<"c", "h", "i", "l", "d", "r", "e", "n">> :> Arr(<<Str(<<"n", "a", "m", "e">>), Str(<<"e", "m", "a", "i", "l">>)>>)))) @@
     (<<"n", "a", "m", "e">> :> Obj(
       (<<"k", "e", "y">> :> Str(<<"n", "a", "m", "e">>)) @@
       (<<"t", "y", "p", "e">> :> Str(<<"I", "n", "p", "u", "t">>)) @@
       (<<"p", "r", "o", "p", "s">> :> Obj(
         (<<"l", "a", "b", "e", "l">> :> Str(<<"N", "a", "m", "e">>)) @@
         (<<"n", "a", "m", "e">> :> Str(<<"n", "a", "m", "e">>)))))) @@
     (<<"e", "m", "a", "i", "l">> :> Obj(
       (<<"k", "e", "y">> :> Str(<<"e", "m", "a", "i", "l">>)) @@
       (<<"t", "y", "p", "e">> :> Str(<<"I", "n", "p", "u", "t">>)) @@
       (<<"p", "r", "o", "p", "s">> :> Obj(
         (<<"l", "a", "b", "e", "l">> :> Str(<<"E", "m", "a", "i", "l">>)) @@
         (<<"n", "a", "m", "e">> :> Str(<<"e", "m", "a", "i", "l">>))))))]

StageStream3 ==
  <<
    <<"{">>, <<"\"", "o", "p", "\"">>, <<":">>,
    <<"\"", "a", "d", "d", "\"">>, <<",">>,
    <<"\"", "p", "a", "t", "h", "\"">>, <<":">>,
    <<"\"", "/", "e", "l", "e", "m", "e", "n", "t", "s", "/", "e", "m", "a", "i", "l", "\"">>,
    <<",">>, <<"\"", "v", "a", "l", "u", "e", "\"">>, <<":">>, <<"{">>,
    <<"\"", "k", "e", "y", "\"">>, <<":">>,
    <<"\"", "e", "m", "a", "i", "l", "\"">>, <<",">>,
    <<"\"", "t", "y", "p", "e", "\"">>, <<":">>,
    <<"\"", "I", "n", "p", "u", "t", "\"">>, <<",">>,
    <<"\"", "p", "r", "o", "p", "s", "\"">>, <<":">>, <<"{">>,
    <<"\"", "l", "a", "b", "e", "l", "\"">>, <<":">>,
    <<"\"", "E", "m", "a", "i", "l", "\"">>, <<",">>,
    <<"\"", "n", "a", "m", "e", "\"">>, <<":">>,
    <<"\"", "e", "m", "a", "i", "l", "\"">>, <<"}">>, <<"}">>, <<"}">> >>

StageTree4 ==
  [root |-> Str(<<"c", "a", "r", "d">>),
   elements |->
     (<<"c", "a", "r", "d">> :> Obj(
       (<<"k", "e", "y">> :> Str(<<"c", "a", "r", "d">>)) @@
       (<<"t", "y", "p", "e">> :> Str(<<"C", "a", "r", "d">>)) @@
       (<<"p", "r", "o", "p", "s">> :> Obj(
         (<<"t", "i", "t", "l", "e">> :> Str(<<"C", "o", "n", "t", "a", "c", "t", " ", "U", "s">>)) @@
         (<<"m", "a", "x", "W", "i", "d", "t", "h">> :> Str(<<"m", "d">>)))) @@
       (<<"c", "h", "i", "l", "d", "r", "e", "n">> :> Arr(<<Str(<<"n", "a", "m", "e">>), Str(<<"e", "m", "a", "i", "l">>), Str(<<"m", "e", "s", "s", "a", "g", "e">>)>>)))) @@
     (<<"n", "a", "m", "e">> :> Obj(
       (<<"k", "e", "y">> :> Str(<<"n", "a", "m", "e">>)) @@
       (<<"t", "y", "p", "e">> :> Str(<<"I", "n", "p", "u", "t">>)) @@
       (<<"p", "r", "o", "p", "s">> :> Obj(
         (<<"l", "a", "b", "e", "l">> :> Str(<<"N", "a", "m", "e">>)) @@
         (<<"n", "a", "m", "e">> :> Str(<<"n", "a", "m", "e">>)))))) @@
     (<<"e", "m", "a", "i", "l">> :> Obj(
       (<<"k", "e", "y">> :> Str(<<"e", "m", "a", "i", "l">>)) @@
       (<<"t", "y", "p", "e">> :> Str(<<"I", "n", "p", "u", "t">>)) @@
       (<<"p", "r", "o", "p", "s">> :> Obj(
         (<<"l", "a", "b", "e", "l">> :> Str(<<"E", "m", "a", "i", "l">>)) @@
         (<<"n", "a", "m", "e">> :> Str(<<"e", "m", "a", "i", "l">>)))))) @@
     (<<"m", "e", "s", "s", "a", "g", "e">> :> Obj(
       (<<"k", "e", "y">> :> Str(<<"m", "e", "s", "s", "a", "g", "e">>)) @@
       (<<"t", "y", "p", "e">> :> Str(<<"T", "e", "x", "t", "a", "r", "e", "a">>)) @@
       (<<"p", "r", "o", "p", "s">> :> Obj(
         (<<"l", "a", "b", "e", "l">> :> Str(<<"M", "e", "s", "s", "a", "g", "e">>)) @@
         (<<"n", "a", "m", "e">> :> Str(<<"m", "e", "s", "s", "a", "g", "e">>))))))]

StageStream4 ==
  <<
    <<"{">>, <<"\"", "o", "p", "\"">>, <<":">>,
    <<"\"", "a", "d", "d", "\"">>, <<",">>,
    <<"\"", "p", "a", "t", "h", "\"">>, <<":">>,
    <<"\"", "/", "e", "l", "e", "m", "e", "n", "t", "s", "/", "m", "e", "s", "s", "a", "g", "e", "\"">>,
    <<",">>, <<"\"", "v", "a", "l", "u", "e", "\"">>, <<":">>, <<"{">>,
    <<"\"", "k", "e", "y", "\"">>, <<":">>,
    <<"\"", "m", "e", "s", "s", "a", "g", "e", "\"">>, <<",">>,
    <<"\"", "t", "y", "p", "e", "\"">>, <<":">>,
    <<"\"", "T", "e", "x", "t", "a", "r", "e", "a", "\"">>, <<",">>,
    <<"\"", "p", "r", "o", "p", "s", "\"">>, <<":">>, <<"{">>,
    <<"\"", "l", "a", "b", "e", "l", "\"">>, <<":">>,
    <<"\"", "M", "e", "s", "s", "a", "g", "e", "\"">>, <<",">>,
    <<"\"", "n", "a", "m", "e", "\"">>, <<":">>,
    <<"\"", "m", "e", "s", "s", "a", "g", "e", "\"">>, <<"}">>, <<"}">>,
    <<"}">> >>

StageTree5 ==
  [root |-> Str(<<"c", "a", "r", "d">>),
   elements |->
     (<<"c", "a", "r", "d">> :> Obj(
       (<<"k", "e", "y">> :> Str(<<"c", "a", "r", "d">>)) @@
       (<<"t", "y", "p", "e">> :> Str(<<"C", "a", "r", "d">>)) @@
       (<<"p", "r", "o", "p", "s">> :> Obj(
         (<<"t", "i", "t", "l", "e">> :> Str(<<"C", "o", "n", "t", "a", "c", "t", " ", "U", "s">>)) @@
         (<<"m", "a", "x", "W", "i", "d", "t", "h">> :> Str(<<"m", "d">>)))) @@
       (<<"c", "h", "i", "l", "d", "r", "e", "n">> :> Arr(<<Str(<<"n", "a", "m", "e">>), Str(<<"e", "m", "a", "i", "l">>), Str(<<"m", "e", "s", "s", "a", "g", "e">>), Str(<<"s", "u", "b", "m", "i", "t">>)>>)))) @@
     (<<"n", "a", "m", "e">> :> Obj(
       (<<"k", "e", "y">> :> Str(<<"n", "a", "m", "e">>)) @@
       (<<"t", "y", "p", "e">> :> Str(<<"I", "n", "p", "u", "t">>)) @@
       (<<"p", "r", "o", "p", "s">> :> Obj(
         (<<"l", "a", "b", "e", "l">> :> Str(<<"N", "a", "m", "e">>)) @@
         (<<"n", "a", "m", "e">> :> Str(<<"n", "a", "m", "e">>)))))) @@
     (<<"e", "m", "a", "i", "l">> :> Obj(
       (<<"k", "e", "y">> :> Str(<<"e", "m", "a", "i", "l">>)) @@
       (<<"t", "y", "p", "e">> :> Str(<<"I", "n", "p", "u", "t">>)) @@
       (<<"p", "r", "o", "p", "s">> :> Obj(
         (<<"l", "a", "b", "e", "l">> :> Str(<<"E", "m", "a", "i", "l">>)) @@
         (<<"n", "a", "m", "e">> :> Str(<<"e", "m", "a", "i", "l">>)))))) @@
     (<<"m", "e", "s", "s", "a", "g", "e">> :> Obj(
       (<<"k", "e", "y">> :> Str(<<"m", "e", "s", "s", "a", "g", "e">>)) @@
       (<<"t", "y", "p", "e">> :> Str(<<"T", "e", "x", "t", "a", "r", "e", "a">>)) @@
       (<<"p", "r", "o", "p", "s">> :> Obj(
         (<<"l", "a", "b", "e", "l">> :> Str(<<"M", "e", "s", "s", "a", "g", "e">>)) @@
         (<<"n", "a", "m", "e">> :> Str(<<"m", "e", "s", "s", "a", "g", "e">>)))))) @@
     (<<"s", "u", "b", "m", "i", "t">> :> Obj(
       (<<"k", "e", "y">> :> Str(<<"s", "u", "b", "m", "i", "t">>)) @@
       (<<"t", "y", "p", "e">> :> Str(<<"B", "u", "t", "t", "o", "n">>)) @@
       (<<"p", "r", "o", "p", "s">> :> Obj(
         (<<"l", "a", "b", "e", "l">> :> Str(<<"S", "e", "n", "d", " ", "M", "e", "s", "s", "a", "g", "e">>)) @@
         (<<"v", "a", "r", "i", "a", "n", "t">> :> Str(<<"p", "r", "i", "m", "a", "r", "y">>))))))]

StageStream5 ==
  <<
    <<"{">>, <<"\"", "o", "p", "\"">>, <<":">>,
    <<"\"", "a", "d", "d", "\"">>, <<",">>,
    <<"\"", "p", "a", "t", "h", "\"">>, <<":">>,
    <<"\"", "/", "e", "l", "e", "m", "e", "n", "t", "s", "/", "s", "u", "b", "m", "i", "t", "\"">>,
    <<",">>, <<"\"", "v", "a", "l", "u", "e", "\"">>, <<":">>, <<"{">>,
    <<"\"", "k", "e", "y", "\"">>, <<":">>,
    <<"\"", "s", "u", "b", "m", "i", "t", "\"">>, <<",">>,
    <<"\"", "t", "y", "p", "e", "\"">>, <<":">>,
    <<"\"", "B", "u", "t", "t", "o", "n", "\"">>, <<",">>,
    <<"\"", "p", "r", "o", "p", "s", "\"">>, <<":">>, <<"{">>,
    <<"\"", "l", "a", "b", "e", "l", "\"">>, <<":">>,
    <<"\"", "S", "e", "n", "d", " ", "M", "e", "s", "s", "a", "g", "e", "\"">>,
    <<",">>, <<"\"", "v", "a", "r", "i", "a", "n", "t", "\"">>, <<":">>,
    <<"\"", "p", "r", "i", "m", "a", "r", "y", "\"">>, <<"}">>, <<"}">>,
    <<"}">> >>

\* SIMULATION_STAGES
SIMULATION_STAGES ==
  << [tree |-> StageTree1, stream |-> StageStream1],
     [tree |-> StageTree2, stream |-> StageStream2],
     [tree |-> StageTree3, stream |-> StageStream3],
     [tree |-> StageTree4, stream |-> StageStream4],
     [tree |-> StageTree5, stream |-> StageStream5] >>

\* ------------------------------------------------------------------------
\* State
\* ------------------------------------------------------------------------

VARIABLES
  mode,          \* useState<Mode>: "simulation" | "interactive"
  phase,         \* useState<Phase>: "typing" | "streaming" | "complete"
  typedPrompt,   \* the prompt typed so far by the simulation
  userPrompt,    \* the prompt input's value
  stageIndex,    \* index of the simulation stage shown, -1 for none
  streamLines,   \* the stream lines shown
  tree,          \* the tree shown in interactive mode, NoTree for null
  isLoading,     \* the loading flag
  abortRef,      \* abortRef.current: 0 for null, else the request it belongs to
  aborted,       \* the requests whose AbortController has been aborted
  req,           \* the handleSubmit invocations, in order of submission
  typing,        \* the typing effect's interval and its counter i
  streaming,     \* the streaming effect's interval and its counter i
  timeouts,      \* the pending setTimeout callbacks
  console,       \* what console.error has logged: <<request, error name>>
  superseded,    \* history: the requests in flight when stop or a submit ran
  stopped,       \* history: stop was invoked in simulation mode
  pTree,         \* applyPatch harness: the current tree
  pPrev,         \* applyPatch harness: the tree before the last patch
  pLog,          \* applyPatch harness: the patches applied, in order
  heap,          \* applyPatch harness: the objects after the last call
  view,          \* render harness: what renderPreview gave for pTree
  replayed       \* fixture replay: the stage indices replayed, in order

demoVars ==
  <<mode, phase, typedPrompt, userPrompt, stageIndex, streamLines, tree,
    isLoading, abortRef, aborted, req, typing, streaming, timeouts, console,
    superseded, stopped>>

harnessVars == <<pTree, pPrev, pLog, heap, view, replayed>>

vars ==
  <<mode, phase, typedPrompt, userPrompt, stageIndex, streamLines, tree,
    isLoading, abortRef, aborted, req, typing, streaming, timeouts, console,
    superseded, stopped, pTree, pPrev, pLog, heap, view, replayed>>

\* useState<UITree | null>(null)
NoTree == [null |-> TRUE]

\* ------------------------------------------------------------------------
\* Bounds and input universes
\* ------------------------------------------------------------------------

\* The number of prompt submissions in one run of the page.
MaxRequests == 2

\* The number of lines in a response body of the stream universe.
MaxLines == 2

\* The number of patches the applyPatch harness applies in a row.
MaxPatches == 2

\* A JSON string token holding s.
Q(s) == <<QUOTE>> \o s \o <<QUOTE>>

\* The wire form of one patch: {"op":op,"path":path,"value":value}.
PatchLine(op, path, value) ==
  <<LBRACE, Q(OpKey), COLON, Q(op), COMMA, Q(PathKey), COLON, Q(path), COMMA,
    Q(ValueKey), COLON>> \o value \o <<RBRACE>>

KeyA == <<"a">>

KeyB == <<"b">>

TypeKey == <<"t", "y", "p", "e">>

\* {"op":"set","path":"/root","value":"a"}
LineRootA == PatchLine(<<"s", "e", "t">>, RootPath, <<Q(KeyA)>>)

\* {"op":"add","path":"/elements/a","value":{"type":"Card"}}
LineElemA ==
  PatchLine(<<"a", "d", "d">>, ElementsPrefix \o KeyA,
            <<LBRACE, Q(TypeKey), COLON, Q(<<"C", "a", "r", "d">>), RBRACE>>)

\* The same key again, padded with white space: ` {"op":"set","path":
\* "/elements/a/props","value":{"type":"Text"}}\r`
LineElemA2 ==
  <<SP>> \o
  PatchLine(<<"s", "e", "t">>, ElementsPrefix \o KeyA \o <<"/", "p", "r", "o", "p", "s">>,
            <<LBRACE, Q(TypeKey), COLON, Q(<<"T", "e", "x", "t">>), RBRACE>>)
  \o <<CR>>

\* A line JSON.parse throws on: {"op":
LineBadJSON == <<LBRACE, Q(OpKey), COLON>>

\* A line that is valid JSON but no patch object: 5
LineNumber == <<<<"5">>>>

\* A line that is valid JSON but has no path: {}
LineNoPath == <<LBRACE, RBRACE>>

\* A comment line: //5
LineComment == <<SLASH, SLASH, <<"5">>>>

\* A line that is the JSON literal null
LineNull == <<<<"n", "u", "l", "l">>>>

\* The lines joined by line feeds, with a final line feed when terminated.
RECURSIVE Join(_)
Join(lines) ==
  IF lines = <<>> THEN <<>>
  ELSE IF Len(lines) = 1 THEN lines[1]
  ELSE lines[1] \o <<LF>> \o Join(Tail(lines))

Body(lines, terminated) == Join(lines) \o (IF terminated THEN <<LF>> ELSE <<>>)

RECURSIVE SeqsUpTo(_, _)
SeqsUpTo(S, n) ==
  IF n = 0 THEN {<<>>}
  ELSE LET shorter == SeqsUpTo(S, n - 1) IN
    shorter \cup {Append(q, x) : q \in shorter, x \in S}

StreamLineKinds ==
  {LineRootA, LineElemA, LineElemA2, LineBadJSON, LineNumber, LineComment}

\* The response bodies of the stream specification: up to MaxLines lines,
\* the last one terminated or not.
StreamBodies ==
  {Body(ls, term) : ls \in SeqsUpTo(StreamLineKinds, MaxLines), term \in BOOLEAN}

\* The response bodies of the demo specification.
DemoBodies ==
  { Body(<<LineRootA, LineElemA>>, FALSE),
    Body(<<LineBadJSON, LineElemA, LineNoPath, LineRootA>>, TRUE) }

\* The values the user gives the prompt input: empty, blank, a prompt.
Prompts == {<<>>, <<" ">>, <<"u", "i">>}

\* !userPrompt.trim(): the prompt is empty or all white space.
PromptIsBlank(p) == \A i \in 1..Len(p) : p[i] \in {" ", "\t", "\r", "\n"}

\* ------------------------------------------------------------------------
\* The Demo component
\* ------------------------------------------------------------------------

Requests == 1..Len(req)

\* A handleSubmit invocation: pc is the await it is suspended at ("fetch",
\* "read") or "done"; content is the response body and rest the part of it
\* not yet delivered; buffer and currentTree are the loop's locals; outcome
\* is how the invocation ended.  History: published counts its setTree
\* calls, cutInLine tells that a chunk ended inside a line.
NewRequest ==
  [pc |-> "fetch", content |-> <<>>, rest |-> <<>>, buffer |-> <<>>,
   currentTree |-> EmptyTree, outcome |-> "", published |-> 0, cutInLine |-> FALSE]

InFlight == {r \in Requests : req[r].pc # "done"}

\* The continuation of a rejected await left to run at any later time.
MicrotaskLate == FALSE

\* An aborted fetch rejects the await the invocation is suspended at; the
\* continuation is a microtask, run before any other event is dispatched.
MicrotaskPending == \E r \in InFlight : r \in aborted

\* The controller left alone.
abortCurrentSkipped(ref, set) == set

\* abortRef.current?.abort()
abortCurrent(ref, set) == IF ref # 0 THEN set \cup {ref} ELSE set

\* Every error logged, the AbortError too.
catchErrorAll(log, r, name) == log \cup {<<r, name>>}

\* catch (err) { if (err.name !== "AbortError") console.error(...) }
catchError(log, r, name) == IF name # "AbortError" THEN log \cup {<<r, name>>} ELSE log

\* The two effects with dependencies [mode, phase]: when either changed,
\* the cleanups clear the intervals and the effects run again.
typingEffect(m, ph) ==
  IF <<m, ph>> = <<mode, phase>> THEN typing
  ELSE [on |-> (m = "simulation" /\ ph = "typing"), i |-> 0]

\* The streaming effect never starting its interval.
streamingEffectOff(m, ph) == [on |-> FALSE, i |-> 0]

streamingEffect(m, ph) ==
  IF <<m, ph>> = <<mode, phase>> THEN streaming
  ELSE [on |-> (m = "simulation" /\ ph = "streaming"), i |-> 0]

requestVars == <<isLoading, abortRef, aborted, req, console, superseded>>

timerVars == <<typing, streaming, timeouts, stopped>>

\* The typing interval's callback.
TypingTick ==
  /\ ~MicrotaskPending
  /\ typing.on
  /\ IF typing.i < Len(SIMULATION_PROMPT)
       THEN /\ typedPrompt' = SubSeq(SIMULATION_PROMPT, 1, typing.i + 1)
            /\ typing' = [typing EXCEPT !.i = @ + 1]
            /\ UNCHANGED timeouts
       ELSE /\ typing' = [on |-> FALSE, i |-> 0]
            /\ timeouts' = timeouts \cup {"toStreaming"}
            /\ UNCHANGED typedPrompt
  /\ UNCHANGED <<mode, phase, userPrompt, stageIndex, streamLines, tree, streaming, stopped>>
  /\ UNCHANGED requestVars
  /\ UNCHANGED harnessVars

\* setTimeout(() => setPhase("streaming"), 500)
StreamingTimeout ==
  /\ ~MicrotaskPending
  /\ "toStreaming" \in timeouts
  /\ timeouts' = timeouts \ {"toStreaming"}
  /\ phase' = "streaming"
  /\ typing' = typingEffect(mode, "streaming")
  /\ streaming' = streamingEffect(mode, "streaming")
  /\ UNCHANGED <<mode, typedPrompt, userPrompt, stageIndex, streamLines, tree, stopped>>
  /\ UNCHANGED requestVars
  /\ UNCHANGED harnessVars

\* The streaming interval's callback.
StreamingTick ==
  /\ ~MicrotaskPending
  /\ streaming.on
  /\ IF streaming.i < Len(SIMULATION_STAGES)
       THEN LET stage == SIMULATION_STAGES[streaming.i + 1] IN
            /\ stageIndex' = streaming.i
            /\ streamLines' = Append(streamLines, stage.stream)
            /\ tree' = stage.tree
            /\ streaming' = [streaming EXCEPT !.i = @ + 1]
            /\ UNCHANGED timeouts
       ELSE /\ streaming' = [on |-> FALSE, i |-> 0]
            /\ timeouts' = timeouts \cup {"toComplete"}
            /\ UNCHANGED <<stageIndex, streamLines, tree>>
  /\ UNCHANGED <<mode, phase, typedPrompt, userPrompt, typing, stopped>>
  /\ UNCHANGED requestVars
  /\ UNCHANGED harnessVars

\* setTimeout(() => { setPhase("complete"); setMode("interactive");
\* setUserPrompt("") }, 500)
CompleteTimeout ==
  /\ ~MicrotaskPending
  /\ "toComplete" \in timeouts
  /\ timeouts' = timeouts \ {"toComplete"}
  /\ phase' = "complete"
  /\ mode' = "interactive"
  /\ userPrompt' = <<>>
  /\ typing' = typingEffect("interactive", "complete")
  /\ streaming' = streamingEffect("interactive", "complete")
  /\ UNCHANGED <<typedPrompt, stageIndex, streamLines, tree, stopped>>
  /\ UNCHANGED requestVars
  /\ UNCHANGED harnessVars

\* The stop button (shown in simulation mode and while loading).
stopGeneration ==
  /\ ~MicrotaskPending
  /\ mode = "simulation" \/ isLoading
  /\ aborted' = abortCurrent(abortRef, aborted)
  /\ superseded' = superseded \cup InFlight
  /\ stopped' = (stopped \/ mode = "simulation")
  /\ IF mode = "simulation"
       THEN /\ mode' = "interactive"
            /\ phase' = "complete"
            /\ typedPrompt' = SIMULATION_PROMPT
            /\ userPrompt' = <<>>
            /\ typing' = typingEffect("interactive", "complete")
            /\ streaming' = streamingEffect("interactive", "complete")
       ELSE UNCHANGED <<mode, phase, typedPrompt, userPrompt, typing, streaming>>
  /\ isLoading' = FALSE
  /\ UNCHANGED <<stageIndex, streamLines, tree, abortRef, req, timeouts, console>>
  /\ UNCHANGED harnessVars

\* onChange of the prompt input (rendered in interactive mode, disabled
\* while loading).
ChangePrompt(p) ==
  /\ ~MicrotaskPending
  /\ mode = "interactive"
  /\ ~isLoading
  /\ userPrompt' = p
  /\ UNCHANGED <<mode, phase, typedPrompt, stageIndex, streamLines, tree>>
  /\ UNCHANGED requestVars
  /\ UNCHANGED timerVars
  /\ UNCHANGED harnessVars

\* What is kept of an invocation that has returned once a newer one starts.
Forget(q) ==
  IF q.pc = "done" THEN [NewRequest EXCEPT !.pc = "done", !.outcome = q.outcome] ELSE q

\* handleSubmit keeping the tree and the stream lines of the run before.
handleSubmitNoReset ==
  /\ ~MicrotaskPending
  /\ mode = "interactive"
  /\ ~(PromptIsBlank(userPrompt) \/ isLoading)
  /\ Len(req) < MaxRequests
  /\ aborted' = abortCurrent(abortRef, aborted)
  /\ superseded' = superseded \cup InFlight
  /\ abortRef' = Len(req) + 1
  /\ isLoading' = TRUE
  /\ req' = Append([r \in Requests |-> Forget(req[r])], NewRequest)
  /\ UNCHANGED <<mode, phase, typedPrompt, userPrompt, stageIndex, console, streamLines, tree>>
  /\ UNCHANGED timerVars
  /\ UNCHANGED harnessVars

\* handleSubmit up to its first await (the form and the submit button are
\* rendered in interactive mode only).
handleSubmit ==
  /\ ~MicrotaskPending
  /\ mode = "interactive"
  /\ ~(PromptIsBlank(userPrompt) \/ isLoading)
  /\ Len(req) < MaxRequests
  /\ aborted' = abortCurrent(abortRef, aborted)
  /\ superseded' = superseded \cup InFlight
  /\ abortRef' = Len(req) + 1
  /\ isLoading' = TRUE
  /\ streamLines' = <<>>
  /\ tree' = EmptyTree
  /\ req' = Append([r \in Requests |-> Forget(req[r])], NewRequest)
  /\ UNCHANGED <<mode, phase, typedPrompt, userPrompt, stageIndex, console>>
  /\ UNCHANGED timerVars
  /\ UNCHANGED harnessVars

\* The locals of an invocation that has returned are gone.
Done(q, outcome) ==
  [q EXCEPT !.pc = "done", !.outcome = outcome, !.buffer = <<>>, !.currentTree = EmptyTree]

\* The invocation r, in state q, leaves through catch (when an error named
\* name was thrown) and finally.
Return(r, q, outcome, name) ==
  /\ console' = IF name = "" THEN console ELSE catchError(console, r, name)
  /\ isLoading' = FALSE
  /\ req' = [req EXCEPT ![r] = Done(q, outcome)]

uiVars == <<mode, phase, typedPrompt, userPrompt, stageIndex>>

\* fetch resolves with an OK response carrying a body.
FetchOk(r, body) ==
  /\ ~MicrotaskPending
  /\ r \in Requests /\ req[r].pc = "fetch"
  /\ req' = [req EXCEPT ![r] = [@ EXCEPT !.pc = "read", !.content = body, !.rest = body,
                                         !.buffer = <<>>, !.currentTree = EmptyTree]]
  /\ UNCHANGED <<streamLines, tree, isLoading, abortRef, aborted, console, superseded>>
  /\ UNCHANGED uiVars
  /\ UNCHANGED timerVars
  /\ UNCHANGED harnessVars

\* fetch resolves with a non-OK status, or with no body, or rejects with a
\* network error; reader.read() rejects with a network error.
Fails(r, pc, outcome, name) ==
  /\ ~MicrotaskPending
  /\ r \in Requests /\ req[r].pc = pc
  /\ Return(r, req[r], outcome, name)
  /\ UNCHANGED <<streamLines, tree, abortRef, aborted, superseded>>
  /\ UNCHANGED uiVars
  /\ UNCHANGED timerVars
  /\ UNCHANGED harnessVars

FetchHttpError(r) == Fails(r, "fetch", "http", "Error")

FetchNoBody(r) == Fails(r, "fetch", "nobody", "Error")

FetchNetworkError(r) == Fails(r, "fetch", "network", "TypeError")

ReadError(r) == Fails(r, "read", "network", "TypeError")

\* The await of an aborted invocation rejects with an AbortError.
AbortSettle(r) ==
  /\ r \in InFlight /\ r \in aborted
  /\ Return(r, req[r], "abort", "AbortError")
  /\ UNCHANGED <<streamLines, tree, abortRef, aborted, superseded>>
  /\ UNCHANGED uiVars
  /\ UNCHANGED timerVars
  /\ UNCHANGED harnessVars

\* The partial line dropped instead of kept for the next chunk.
popBufferDropped(pieces) == <<>>

\* buffer = lines.pop() ?? ""
popBuffer(pieces) == pieces[Len(pieces)]

\* What a pass res of the for loop publishes: the last tree set and the
\* lines appended.
Publish(res) ==
  /\ tree' = IF res.shown # <<>> THEN res.tree ELSE tree
  /\ streamLines' = streamLines \o res.shown

\* The invocation after a pass res of the for loop inside the while loop.
AfterChunk(r, q, buffer, res) ==
  /\ Publish(res)
  /\ IF res.threw
       THEN Return(r, [q EXCEPT !.published = @ + Len(res.shown)], "threw", "TypeError")
       ELSE /\ req' = [req EXCEPT ![r] = [q EXCEPT !.published = @ + Len(res.shown),
                                                  !.buffer = buffer,
                                                  !.currentTree = res.tree,
                                                  !.cutInLine = @ \/ (buffer # <<>> /\ q.rest # <<>>)]]
            /\ UNCHANGED <<isLoading, console>>

\* const lines = buffer.split("\n"); buffer = lines.pop(); for (...)
WhilePass(r, q, pieces) ==
  AfterChunk(r, q, popBuffer(pieces),
             ProcessLines(LoopStart(req[r].currentTree), SubSeq(pieces, 1, Len(pieces) - 1)))

\* reader.read() resolves with the next n lexemes of the body: one pass of
\* the while loop.
ReadChunk(r, n) ==
  /\ ~MicrotaskPending
  /\ r \in Requests /\ req[r].pc = "read"
  /\ n \in 1..Len(req[r].rest)
  /\ WhilePass(r, [req[r] EXCEPT !.rest = Slice(@, n)],
               Split(req[r].buffer \o SubSeq(req[r].rest, 1, n), LF))
  /\ UNCHANGED <<abortRef, aborted, superseded>>
  /\ UNCHANGED uiVars
  /\ UNCHANGED timerVars
  /\ UNCHANGED harnessVars

\* After the loop: if (buffer.trim()) { the loop body on buffer }, then
\* finally.
AfterLoop(r, res) ==
  /\ Publish(res)
  /\ Return(r, [req[r] EXCEPT !.published = @ + Len(res.shown)],
            IF res.threw THEN "threw" ELSE "complete",
            IF res.threw THEN "TypeError" ELSE "")

\* reader.read() resolves with done: the loop ends and what is left in the
\* buffer is handled as the last line.
ReadDone(r) ==
  /\ ~MicrotaskPending
  /\ r \in Requests /\ req[r].pc = "read"
  /\ req[r].rest = <<>>
  /\ AfterLoop(r, ProcessLines(LoopStart(req[r].currentTree),
                               IF Trim(req[r].buffer) # <<>> THEN <<req[r].buffer>> ELSE <<>>))
  /\ UNCHANGED <<abortRef, aborted, superseded>>
  /\ UNCHANGED uiVars
  /\ UNCHANGED timerVars
  /\ UNCHANGED harnessVars

\* ------------------------------------------------------------------------
\* Rendering
\* ------------------------------------------------------------------------

PropsKey == <<"p", "r", "o", "p", "s">>

ChildrenKey == <<"c", "h", "i", "l", "d", "r", "e", "n">>

\* A function value, as found on Object.prototype.
Fn(name) == [t |-> "function", v |-> name]

\* Names every object literal inherits from Object.prototype (among others).
ObjectPrototypeKeys ==
  { <<"c", "o", "n", "s", "t", "r", "u", "c", "t", "o", "r">>,
    <<"t", "o", "S", "t", "r", "i", "n", "g">>,
    <<"v", "a", "l", "u", "e", "O", "f">>,
    <<"h", "a", "s", "O", "w", "n", "P", "r", "o", "p", "e", "r", "t", "y">> }

\* elements[key] on an elements object: the own property, else the
\* inherited one, else undefined.  Keys are strings in the trees rendered
\* here; a key of another type finds nothing.
Lookup(elements, key) ==
  IF key.t # "string" THEN Undefined
  ELSE IF key.v \in DOMAIN elements THEN elements[key.v]
  ELSE IF key.v \in ObjectPrototypeKeys THEN Fn(key.v)
  ELSE Undefined

\* The kinds whose case calls renderChildren().
ContainerKinds ==
  { <<"C", "a", "r", "d">>,
    <<"S", "t", "a", "c", "k">>,
    <<"G", "r", "i", "d">>,
    <<"F", "o", "r", "m">> }

\* The other kinds the switch has a case for.
LeafKinds ==
  { <<"D", "i", "v", "i", "d", "e", "r">>,
    <<"I", "n", "p", "u", "t">>,
    <<"T", "e", "x", "t", "a", "r", "e", "a">>,
    <<"S", "e", "l", "e", "c", "t">>,
    <<"C", "h", "e", "c", "k", "b", "o", "x">>,
    <<"R", "a", "d", "i", "o">>,
    <<"S", "w", "i", "t", "c", "h">>,
    <<"B", "u", "t", "t", "o", "n">>,
    <<"L", "i", "n", "k">>,
    <<"H", "e", "a", "d", "i", "n", "g">>,
    <<"T", "e", "x", "t">>,
    <<"I", "m", "a", "g", "e">>,
    <<"A", "v", "a", "t", "a", "r">>,
    <<"B", "a", "d", "g", "e">>,
    <<"A", "l", "e", "r", "t">>,
    <<"P", "r", "o", "g", "r", "e", "s", "s">>,
    <<"R", "a", "t", "i", "n", "g">> }

\* What a render gives: the output, or the error thrown.  An output is
\* Nothing (null) or a node: the kind rendered, its text, its children.
Rendered(out) == [error |-> "", out |-> out]

Thrown(name) == [error |-> name, out |-> <<>>]

Nothing == [tag |-> "null"]

\* <div ...>[{type}]</div>
Placeholder(type) == [tag |-> "placeholder", text |-> type, kids |-> <<>>]

\* The markup of a leaf kind is taken as given: its kind and its props.
Leaf(type, props) == [tag |-> "leaf", text |-> type, props |-> props, kids |-> <<>>]

Container(type, kids) == [tag |-> "container", text |-> type, kids |-> kids]

\* <div ...>{isLoading ? "generating..." : "waiting..."}</div>
Waiting(loading) == [tag |-> "waiting", text |-> loading, kids |-> <<>>]

Preview(out) == [tag |-> "preview", kids |-> <<out>>]

\* There is no render yet.
NotRendered == [error |-> "", out |-> Nothing]

\* The nested renderElement calls the engine's stack has room for; the
\* call that exceeds it throws a RangeError.  An acyclic chain of children
\* is no longer than the number of keys, which stays below this.
StackFrames == 4

ChildrenOf(children) == IF children.t = "undefined" THEN Arr(<<>>) ELSE children

RECURSIVE renderElement(_, _, _), renderChildren(_, _, _)

\* [first, ...rest] of childKeys.map(...): an error thrown by a callback
\* ends the map.
MapRest(first, rest) ==
  IF rest.error # "" THEN rest ELSE Rendered(<<first.out>> \o rest.out)

MapFrom(first, keys, elements, frames) ==
  IF first.error # "" THEN first
  ELSE MapRest(first, renderChildren(Tail(keys), elements, frames))

\* child ? renderElement(child, elements) : null
renderChild(child, elements, frames) ==
  IF Truthy(child) THEN renderElement(child, elements, frames) ELSE Rendered(Nothing)

\* childKeys.map((key) => ...), the callbacks nested one frame deeper.
renderChildren(keys, elements, frames) ==
  IF keys = <<>> THEN Rendered(<<>>)
  ELSE MapFrom(renderChild(Lookup(elements, Head(keys)), elements, frames),
               keys, elements, frames)

WithChildren(type, kids) ==
  IF kids.error # "" THEN kids ELSE Rendered(Container(type, kids.out))

\* The container cases: childKeys.map throws unless childKeys is an array.
renderContainer(type, childKeys, elements, frames) ==
  IF childKeys.t # "array" THEN Thrown("TypeError")
  ELSE WithChildren(type, renderChildren(childKeys.v, elements, frames - 1))

\* switch (type)
renderSwitch(type, props, childKeys, elements, frames) ==
  IF type.t = "string" /\ type.v \in ContainerKinds
    THEN renderContainer(type, childKeys, elements, frames)
  ELSE IF type.t = "string" /\ type.v \in LeafKinds
    THEN Rendered(Leaf(type, props))
  ELSE Rendered(Placeholder(type))

\* const { type, props, children: childKeys = [] } = element; the read of
\* props.className throws when props is undefined or null.
renderElement(element, elements, frames) ==
  IF frames = 0 THEN Thrown("RangeError")
  ELSE IF Get(element, PropsKey).t \in {"undefined", "null"} THEN Thrown("TypeError")
  ELSE renderSwitch(Get(element, TypeKey), Get(element, PropsKey),
                    ChildrenOf(Get(element, ChildrenKey)), elements, frames)

InPreview(r) == IF r.error # "" THEN r ELSE Rendered(Preview(r.out))

\* renderPreview, on the tree shown.
renderPreview(currentTree, loading) ==
  IF \/ currentTree = NoTree
     \/ ~Truthy(currentTree.root)
     \/ ~Truthy(Lookup(currentTree.elements, currentTree.root))
    THEN Rendered(Waiting(loading))
  ELSE InPreview(renderElement(Lookup(currentTree.elements, currentTree.root),
                               currentTree.elements, StackFrames))

\* ------------------------------------------------------------------------
\* Specifications
\* ------------------------------------------------------------------------

HarnessIdle ==
  /\ pTree = EmptyTree
  /\ pPrev = EmptyTree
  /\ pLog = <<>>
  /\ heap = [mem |-> HeapOf(pTree), ret |-> 1]
  /\ view = NotRendered
  /\ replayed = <<>>

\* The page as mounted: simulation mode, the typing effect has run.
DemoMounted ==
  /\ mode = "simulation"
  /\ phase = "typing"
  /\ typedPrompt = <<>>
  /\ userPrompt = <<>>
  /\ stageIndex = -1
  /\ streamLines = <<>>
  /\ tree = NoTree
  /\ isLoading = FALSE
  /\ abortRef = 0
  /\ aborted = {}
  /\ req = <<>>
  /\ typing = [on |-> TRUE, i |-> 0]
  /\ streaming = [on |-> FALSE, i |-> 0]
  /\ timeouts = {}
  /\ console = {}
  /\ superseded = {}
  /\ stopped = FALSE

Init == DemoMounted /\ HarnessIdle

Next ==
  \/ TypingTick
  \/ StreamingTimeout
  \/ StreamingTick
  \/ CompleteTimeout
  \/ stopGeneration
  \/ \E p \in Prompts : ChangePrompt(p)
  \/ handleSubmit
  \/ \E r \in Requests, body \in DemoBodies : FetchOk(r, body)
  \/ \E r \in Requests : FetchHttpError(r)
  \/ \E r \in Requests : FetchNoBody(r)
  \/ \E r \in Requests : FetchNetworkError(r)
  \/ \E r \in Requests : ReadError(r)
  \/ \E r \in Requests : AbortSettle(r)
  \/ \E r \in Requests : \E n \in 1..Len(req[r].rest) : ReadChunk(r, n)
  \/ \E r \in Requests : ReadDone(r)

Spec == Init /\ [][Next]_vars

\* A timer callback: an interval's tick or a timeout's expiry.
TimerCallback == TypingTick \/ StreamingTimeout \/ StreamingTick \/ CompleteTimeout

\* The page with its timers running: a pending setInterval or setTimeout
\* callback is eventually called.
SpecTimed == Spec /\ WF_vars(TimerCallback)

\* The live stream loop alone: the page after the simulation has run to
\* its end, the user has typed a prompt and handleSubmit has started the
\* first request; the response is OK and is delivered to its end, cut into
\* chunks in every possible way.
StreamSubmitted ==
  /\ mode = "interactive"
  /\ phase = "complete"
  /\ typedPrompt = SIMULATION_PROMPT
  /\ userPrompt = <<"u", "i">>
  /\ stageIndex = Len(SIMULATION_STAGES) - 1
  /\ streamLines = <<>>
  /\ tree = EmptyTree
  /\ isLoading = TRUE
  /\ abortRef = 1
  /\ aborted = {}
  /\ req = <<NewRequest>>
  /\ typing = [on |-> FALSE, i |-> 0]
  /\ streaming = [on |-> FALSE, i |-> 0]
  /\ timeouts = {}
  /\ console = {}
  /\ superseded = {}
  /\ stopped = FALSE

InitStream == StreamSubmitted /\ HarnessIdle

NextStream ==
  \/ \E r \in Requests, body \in StreamBodies : FetchOk(r, body)
  \/ \E r \in Requests : \E n \in 1..Len(req[r].rest) : ReadChunk(r, n)
  \/ \E r \in Requests : ReadDone(r)

SpecStream == InitStream /\ [][NextStream]_vars

\* The applyPatch harness: a tree and a patch drawn from bounded sets, the
\* patch applied, up to MaxPatches times in a row.
Patch(op, path, value) ==
  Obj((OpKey :> Str(op)) @@ (PathKey :> Str(path)) @@ (ValueKey :> value))

\* { type: "Card", children: ["b"] }
ElemCard ==
  Obj((TypeKey :> Str(<<"C", "a", "r", "d">>)) @@ (ChildrenKey :> Arr(<<Str(KeyB)>>)))

\* { type: "Text", props: {} }
ElemText ==
  Obj((TypeKey :> Str(<<"T", "e", "x", "t">>)) @@ (<<"p", "r", "o", "p", "s">> :> Obj(NoProps)))

PatchOps == {<<"s", "e", "t">>, <<"a", "d", "d">>, <<"r", "e", "m", "o", "v", "e">>}

PatchPaths ==
  { RootPath,
    ElementsPrefix \o KeyA,
    ElementsPrefix \o KeyB,
    ElementsPrefix \o KeyA \o <<"/", "p", "r", "o", "p", "s">>,
    ElementsPrefix,
    <<"/", "e", "l", "e", "m", "e", "n", "t", "s">>,
    RootPath \o <<"/">> \o KeyA }

PatchValues == {Str(KeyA), ElemCard, ElemText}

Patches == {Patch(op, path, value) : op \in PatchOps, path \in PatchPaths, value \in PatchValues}

SampleTrees ==
  { EmptyTree,
    [root |-> Str(KeyB), elements |-> (KeyA :> ElemCard)] }

InitPatch ==
  /\ DemoMounted
  /\ pTree \in SampleTrees
  /\ pPrev = pTree
  /\ pLog = <<>>
  /\ heap = [mem |-> HeapOf(pTree), ret |-> 1]
  /\ view = NotRendered
  /\ replayed = <<>>

\* pTree = applyPatch(pTree, patch)
ApplyStep(patch) ==
  /\ Len(pLog) < MaxPatches
  /\ pPrev' = pTree
  /\ pTree' = applyPatch(pTree, patch)
  /\ pLog' = Append(pLog, patch)
  /\ heap' = applyPatchHeap(HeapOf(pTree), 1, patch)
  /\ UNCHANGED <<view, replayed>>
  /\ UNCHANGED demoVars

NextPatch == \E patch \in Patches : ApplyStep(patch)

SpecPatch == InitPatch /\ [][NextPatch]_vars

\* The fixture replay: stage stream lines, in any order, parsed and applied
\* to the empty tree as the loop body does.
ReplayStage(i) ==
  /\ Len(replayed) < Len(SIMULATION_STAGES)
  /\ replayed' = Append(replayed, i)
  /\ pPrev' = pTree
  /\ pTree' = applyLine(pTree, SIMULATION_STAGES[i].stream).tree
  /\ UNCHANGED <<pLog, heap, view>>
  /\ UNCHANGED demoVars

NextReplay == \E i \in 1..Len(SIMULATION_STAGES) : ReplayStage(i)

SpecReplay == Init /\ [][NextReplay]_vars

\* The render harness: patches that build trees with resolving, dangling,
\* inherited and cyclic references, each applied to the tree shown and the
\* preview rendered again, up to MaxRenderPatches times in a row.
MaxRenderPatches == 3

KeyC == <<"c">>

KeyConstructor == <<"c", "o", "n", "s", "t", "r", "u", "c", "t", "o", "r">>

KindCard == <<"C", "a", "r", "d">>

KindText == <<"T", "e", "x", "t">>

KindFoo == <<"F", "o", "o">>

\* { type: "Card", props: {}, children }
CardOf(children) ==
  Obj((TypeKey :> Str(KindCard)) @@ (PropsKey :> Obj(NoProps)) @@ (ChildrenKey :> Arr(children)))

\* { type, props: {} }
ElemOf(type) == Obj((TypeKey :> Str(type)) @@ (PropsKey :> Obj(NoProps)))

\* { type: "Foo" }
ElemBare == Obj(TypeKey :> Str(KindFoo))

RenderElements ==
  { CardOf(<<Str(KeyB)>>),
    CardOf(<<Str(KeyC), Str(KeyB)>>),
    CardOf(<<Str(KeyA)>>),
    CardOf(<<Str(KeyConstructor)>>),
    ElemOf(KindText),
    ElemOf(KindFoo),
    ElemBare }

RenderPatches ==
  {Patch(OpSet.v, RootPath, Str(k)) : k \in {KeyA, KeyC, KeyConstructor}} \cup
  {Patch(OpAdd.v, ElementsPrefix \o k, e) : k \in {KeyA, KeyB}, e \in RenderElements}

InitRender ==
  /\ DemoMounted
  /\ pTree = EmptyTree
  /\ pPrev = EmptyTree
  /\ pLog = <<>>
  /\ heap = [mem |-> HeapOf(pTree), ret |-> 1]
  /\ view = renderPreview(pTree, FALSE)
  /\ replayed = <<>>

\* setTree(applyPatch(tree, patch)), then the preview is rendered.
RenderStep(patch) ==
  /\ Len(pLog) < MaxRenderPatches
  /\ pPrev' = pTree
  /\ pTree' = applyPatch(pTree, patch)
  /\ pLog' = Append(pLog, patch)
  /\ heap' = applyPatchHeap(HeapOf(pTree), 1, patch)
  /\ view' = renderPreview(pTree', FALSE)
  /\ UNCHANGED replayed
  /\ UNCHANGED demoVars

NextRender == \E patch \in RenderPatches : RenderStep(patch)

SpecRender == InitRender /\ [][NextRender]_vars

\* ------------------------------------------------------------------------
\* Properties of applyPatch (SpecPatch)
\* ------------------------------------------------------------------------

LastPatch == pLog[Len(pLog)]

IsSetOrAdd(patch) == Get(patch, OpKey) \in {OpSet, OpAdd}

\* The patch's path is "/elements/k" or a longer path "/elements/k/...".
Targets(patch, k) ==
  \/ Get(patch, PathKey).v = ElementsPrefix \o k
  \/ StartsWith(Get(patch, PathKey).v, ElementsPrefix \o k \o <<"/">>)

\* C1: after two patches in a row with op set or add whose paths target the
\* same key k, the element at k is the second patch's value, exactly.
C1_LastWriteWins ==
  Len(pLog) >= 2 =>
    \A k \in {KeyA, KeyB} :
      ( /\ IsSetOrAdd(pLog[Len(pLog) - 1]) /\ Targets(pLog[Len(pLog) - 1], k)
        /\ IsSetOrAdd(LastPatch) /\ Targets(LastPatch, k) )
      => /\ k \in DOMAIN pTree.elements
         /\ pTree.elements[k] = Get(LastPatch, ValueKey)

\* C1's case: a Card element added at "/elements/a", then a Text element
\* set through the longer path "/elements/a/props".
C1_Witness ==
  /\ Len(pLog) = 2
  /\ pLog[1] = Patch(<<"a", "d", "d">>, ElementsPrefix \o KeyA, ElemCard)
  /\ pLog[2] = Patch(<<"s", "e", "t">>, ElementsPrefix \o KeyA \o <<"/", "p", "r", "o", "p", "s">>, ElemText)
  /\ pPrev.elements[KeyA] = ElemCard
  /\ pTree.elements[KeyA] = ElemText

\* C2: a patch with path "/root" and op set or add makes its value the
\* root, whatever the root was, and leaves the element mapping as it was.
C2_RootReplaced ==
  (Len(pLog) >= 1 /\ Get(LastPatch, PathKey).v = RootPath /\ IsSetOrAdd(LastPatch))
  => /\ pTree.root = Get(LastPatch, ValueKey)
     /\ pTree.elements = pPrev.elements

\* C2's case: a tree with root "b" and an element, its root set to "a".
C2_Witness ==
  /\ Len(pLog) >= 1
  /\ LastPatch = Patch(<<"s", "e", "t">>, RootPath, Str(KeyA))
  /\ pPrev.root = Str(KeyB)
  /\ pPrev.elements # NoProps
  /\ pTree.root = Str(KeyA)

\* The path is "/root", or "/elements/" followed by a non-empty key.
IsDefinedPath(path) ==
  \/ path = RootPath
  \/ /\ StartsWith(path, ElementsPrefix)
     /\ Len(path) > Len(ElementsPrefix)
     /\ path[Len(ElementsPrefix) + 1] # "/"

\* C6: a patch whose op is neither set nor add, whatever its path, and a
\* patch whose path is neither "/root" nor "/elements/" plus a non-empty
\* key, leaves the tree as it was.
C6_OtherIsNoOp ==
  (Len(pLog) >= 1 /\ (~IsSetOrAdd(LastPatch) \/ ~IsDefinedPath(Get(LastPatch, PathKey).v)))
  => pTree = pPrev

\* ------------------------------------------------------------------------
\* The fixture replayed (SpecReplay)
\* ------------------------------------------------------------------------

\* C5: the five stage stream lines, parsed and applied in order to the
\* empty tree, give a tree whose root element has the children name,
\* email, message, submit: the tree of the last stage.
C5_ReplayMatchesFixture ==
  replayed = <<1, 2, 3, 4, 5>> =>
    /\ pTree.root.t = "string"
    /\ pTree.root.v \in DOMAIN pTree.elements
    /\ Get(pTree.elements[pTree.root.v], ChildrenKey) =
         Arr(<<Str(<<"n", "a", "m", "e">>), Str(<<"e", "m", "a", "i", "l">>),
               Str(<<"m", "e", "s", "s", "a", "g", "e">>),
               Str(<<"s", "u", "b", "m", "i", "t">>)>>)
    /\ pTree = SIMULATION_STAGES[Len(SIMULATION_STAGES)].tree

SameElsewhere(k) ==
  /\ pTree.root = pPrev.root
  /\ \A j \in (DOMAIN pTree.elements \cup DOMAIN pPrev.elements) \ {k} :
       /\ j \in DOMAIN pTree.elements
       /\ j \in DOMAIN pPrev.elements
       /\ pTree.elements[j] = pPrev.elements[j]

\* C12: after a call the tree that was passed in still has the root and the
\* elements it had before, the tree returned is the one applyPatch computes,
\* and for a patch targeting "/elements/k" the tree returned has the root
\* and, at every key but k, the elements of the tree passed in.
C12_InputNotMutated ==
  Len(pLog) >= 1
  => /\ Deref(heap.mem, 1) = pPrev
     /\ Deref(heap.mem, heap.ret) = pTree
     /\ \A k \in {KeyA, KeyB} : Targets(LastPatch, k) => SameElsewhere(k)

\* C12's case: the tree passed in holds an element at "a" and the patch
\* sets another element there; the tree returned differs from it.
C12_Witness ==
  /\ Len(pLog) >= 1
  /\ IsSetOrAdd(LastPatch)
  /\ Targets(LastPatch, KeyA)
  /\ KeyA \in DOMAIN pPrev.elements
  /\ pTree.elements[KeyA] # pPrev.elements[KeyA]
  /\ heap.ret # 1
  /\ heap.mem[heap.mem[1].elements][KeyA] = pPrev.elements[KeyA]

\* ------------------------------------------------------------------------
\* Properties of the live stream loop (SpecStream)
\* ------------------------------------------------------------------------

\* The lines of a body that runs to its end: the terminated lines, and the
\* unterminated last one unless it is blank.
LinesOf(pieces) ==
  SubSeq(pieces, 1, Len(pieces) - 1) \o
  (IF Trim(pieces[Len(pieces)]) # <<>> THEN <<pieces[Len(pieces)]>> ELSE <<>>)

BodyLines(content) == LinesOf(Split(content, LF))

\* A patch object: an object whose path is a string.
IsPatchValue(x) == x.t = "object" /\ Get(x, PathKey).t = "string"

\* The reference run: every line that is the JSON text of a patch object is
\* applied, in order; every other line is passed over.
RefStep(st, line, r) ==
  IF r.ok /\ IsPatchValue(r.val)
    THEN [tree |-> applyPatch(st.tree, r.val), shown |-> Append(st.shown, Trim(line))]
    ELSE st

RECURSIVE RefRun(_, _)
RefRun(st, lines) ==
  IF lines = <<>> THEN st
  ELSE RefRun(RefStep(st, Head(lines), JSONParse(Trim(Head(lines)))), Tail(lines))

RefStart == [tree |-> EmptyTree, shown |-> <<>>]

SameAsRef(st) == tree = st.tree /\ streamLines = st.shown

\* The lines left when the lines that fail JSON parsing are taken out.
RECURSIVE WithoutBadJson(_)
WithoutBadJson(lines) ==
  IF lines = <<>> THEN <<>>
  ELSE (IF JSONParse(Trim(Head(lines))).ok THEN <<Head(lines)>> ELSE <<>>)
       \o WithoutBadJson(Tail(lines))

EndsLike(q, st) ==
  /\ tree = st.tree
  /\ streamLines = st.shown
  /\ (q.outcome = "complete") = ~st.threw

\* C3: a line that fails JSON parsing changes neither the tree nor the
\* stream lines shown and does not stop the lines after it from being
\* parsed and applied: a stream ends exactly as the same stream without its
\* failing lines does.
C3_BadJsonSkipped ==
  \A r \in Requests :
    req[r].pc = "done"
    => EndsLike(req[r], ProcessLines(LoopStart(EmptyTree),
                                     WithoutBadJson(BodyLines(req[r].content))))

\* C3's case: a line that fails JSON parsing, then an unterminated patch
\* line, which is applied.
C3_Witness ==
  /\ req[1].pc = "done"
  /\ req[1].content = Body(<<LineBadJSON, LineRootA>>, FALSE)
  /\ streamLines = <<LineRootA>>
  /\ tree.root = Str(KeyA)

\* The run over the body in one chunk, then the end of the stream.
OneChunkEnd(res, buffer) ==
  IF res.threw \/ Trim(buffer) = <<>> THEN res
  ELSE ProcessLines(res, <<buffer>>)

OneChunkRun(pieces) ==
  OneChunkEnd(ProcessLines(LoopStart(EmptyTree), SubSeq(pieces, 1, Len(pieces) - 1)),
              popBuffer(pieces))

\* C4: however the body was cut into chunks, the tree at the end is the
\* tree the same body gives when it arrives as one chunk.
C4_ChunkingIrrelevant ==
  \A r \in Requests :
    req[r].pc = "done" => tree = OneChunkRun(Split(req[r].content, LF)).tree

\* C4's case: a body of two patch lines, the last unterminated, that arrived
\* with a chunk boundary inside a line.
C4_Witness ==
  /\ req[1].pc = "done"
  /\ req[1].cutInLine
  /\ req[1].content = Body(<<LineRootA, LineElemA>>, FALSE)
  /\ tree.root = Str(KeyA)
  /\ KeyA \in DOMAIN tree.elements

\* C7: a malformed line of any kind, a line that is valid JSON but no patch
\* object included, is skipped silently: the run ends with the stream, no
\* error is logged, and the patch lines alone decide what is shown.
C7_MalformedSkipped ==
  \A r \in Requests :
    req[r].pc = "done"
    => /\ req[r].outcome = "complete"
       /\ console = {}
       /\ SameAsRef(RefRun(RefStart, BodyLines(req[r].content)))

\* ------------------------------------------------------------------------
\* Properties of the live request's orchestration (Spec)
\* ------------------------------------------------------------------------

Live == {r \in InFlight : r \notin aborted}

NoLatePublication ==
  \A r \in Requests \cap superseded : req'[r].published <= req[r].published

\* C8: at most one request is live; a request that was in flight when stop
\* was invoked or a newer submission started has been aborted, and from
\* then on publishes no tree and no stream line.
C8_OneWriter ==
  /\ [](Cardinality(Live) <= 1 /\ superseded \subseteq aborted)
  /\ [][NoLatePublication]_vars

\* C8's case: the first request published, was stopped and ended aborted;
\* the second request is reading and has published.
C8_Witness ==
  /\ Len(req) = 2
  /\ 1 \in superseded
  /\ req[1].outcome = "abort"
  /\ req[2].pc = "read"
  /\ req[2].published > 0

Logged(r) == \E e \in console : e[1] = r

\* C9: a request that ended aborted has logged nothing, a request that
\* ended by a failure has logged its error, and once the latest request has
\* ended the loading flag is off.
C9_AbortNotLogged ==
  \A r \in Requests :
    req[r].pc = "done"
    => /\ req[r].outcome = "abort" => ~Logged(r)
       /\ req[r].outcome \in {"http", "nobody", "network"} => Logged(r)
       /\ r = Len(req) => ~isLoading

\* C9's case: the first request ended aborted, the second by a failure.
C9_Witness ==
  /\ Len(req) = 2
  /\ req[1].outcome = "abort"
  /\ req[2].outcome \in {"http", "nobody", "network"}
  /\ console = {<<2, "Error">>}
  /\ ~isLoading

IsPrefix(s, t) == Len(s) <= Len(t) /\ SubSeq(t, 1, Len(s)) = s

\* The lines of a body that are the JSON text of a truthy value.
RECURSIVE ValueLines(_)
ValueLines(lines) ==
  IF lines = <<>> THEN <<>>
  ELSE (IF Truthy(parsePatch(Head(lines))) THEN <<Trim(Head(lines))>> ELSE <<>>)
       \o ValueLines(Tail(lines))

\* For each response body of the demo, and for the response not yet
\* received, the lines it delivers.
Received == [body \in DemoBodies \cup {<<>>} |-> ValueLines(BodyLines(body))]

\* The tree is what the stream lines shown give, applied in order to the
\* empty tree, and the lines are lines of the latest response, in order.
BuiltFromLatest ==
  (mode = "interactive" /\ Len(req) >= 1)
  => /\ IsPrefix(streamLines, Received[req[Len(req)].content])
     /\ tree = RefRun(RefStart, streamLines).tree

NothingUndone ==
  (mode = "interactive" /\ Len(req) >= 1 /\ Len(req') = Len(req))
  => IsPrefix(streamLines, streamLines')

\* C10: from an accepted submission on, the tree shown is the empty tree
\* with the patches received for that submission applied in arrival order,
\* and within the run the stream lines shown only grow.
C10_RebuiltFromEmpty ==
  /\ []BuiltFromLatest
  /\ [][NothingUndone]_vars

\* C10's case: after a first run that was stopped, the second submission's
\* response has been applied to its end.
C10_Witness ==
  /\ Len(req) = 2
  /\ req[1].outcome = "abort"
  /\ req[2].outcome = "complete"
  /\ streamLines = <<LineRootA, LineElemA>>
  /\ tree.root = Str(KeyA)
  /\ KeyA \in DOMAIN tree.elements

\* ------------------------------------------------------------------------
\* Properties of the scripted run and of the loading flag (Spec, SpecTimed)
\* ------------------------------------------------------------------------

Scripted == <<mode, phase, typedPrompt, userPrompt, streamLines, tree>>

StoppedForGood ==
  /\ stopped' => (mode' = "interactive" /\ phase' = "complete")
  /\ (stopped /\ TimerCallback) => UNCHANGED Scripted

\* C11: once stop has been invoked in simulation mode the demo is in
\* interactive mode with phase complete, and no timer callback changes the
\* mode, the phase, the typed prompt, the prompt input, the stream lines or
\* the tree any more.
C11_StopAbandonsTimers == [][StoppedForGood]_vars

\* The first n stage lines.
StageLines(n) == [i \in 1..n |-> SIMULATION_STAGES[i].stream]

ScriptOnTrack ==
  /\ \E n \in 0..Len(SIMULATION_PROMPT) : typedPrompt = SubSeq(SIMULATION_PROMPT, 1, n)
  /\ phase # "typing" => typedPrompt = SIMULATION_PROMPT
  /\ phase = "typing" => stageIndex = -1
  /\ streamLines = StageLines(stageIndex + 1)
  /\ tree = IF stageIndex = -1 THEN NoTree ELSE SIMULATION_STAGES[stageIndex + 1].tree
  /\ Len(req) = 0
  /\ ~isLoading

ScriptStep ==
  (mode = "simulation" /\ mode' = "simulation")
  => /\ Len(typedPrompt') <= Len(typedPrompt) + 1
     /\ stageIndex' <= stageIndex + 1
     /\ phase' # phase => <<phase, phase'>> = <<"typing", "streaming">>

ScriptDone ==
  /\ mode = "interactive"
  /\ phase = "complete"
  /\ tree = SIMULATION_STAGES[Len(SIMULATION_STAGES)].tree
  /\ streamLines = StageLines(Len(SIMULATION_STAGES))

\* C15: while the demo is in simulation mode the prompt is typed one
\* character at a time, then the stages are shown one at a time in index
\* order, each with its line appended and its tree shown, and no request is
\* made; unless stop is invoked, the demo reaches interactive mode with
\* phase complete, the last stage's tree and the five stage lines.
C15_ScriptRunsToEnd ==
  /\ [](mode = "simulation" => ScriptOnTrack)
  /\ [][ScriptStep]_vars
  /\ <>(stopped \/ ScriptDone)

\* C15's case: the script has run to its end without the user.
C15_Witness ==
  /\ ~stopped
  /\ ScriptDone
  /\ typedPrompt = SIMULATION_PROMPT
  /\ stageIndex = Len(SIMULATION_STAGES) - 1
  /\ Len(req) = 0

\* C17: while a request that has not been aborted is in flight the
\* loading flag is on; the continuation of an aborted request has run
\* before a newer request can start, so it never clears that request's flag.
C17_LoadingWhileLive ==
  /\ Live # {} => isLoading
  /\ \A r \in Requests : (r \in aborted /\ r < Len(req)) => req[r].pc = "done"

\* C17's case: the first request was stopped and has ended aborted, the
\* second is in flight with the loading flag on.
C17_Witness ==
  /\ Len(req) = 2
  /\ 1 \in superseded
  /\ req[1].outcome = "abort"
  /\ req[2].pc = "fetch"
  /\ 2 \in Live
  /\ isLoading

\* ------------------------------------------------------------------------
\* Properties of rendering (SpecRender)
\* ------------------------------------------------------------------------

TypeOf(k) == Get(pTree.elements[k], TypeKey)

IsKnownKind(type) == type.t = "string" /\ type.v \in (ContainerKinds \cup LeafKinds)

IsUnknownKind(type) == type.t = "string" /\ ~IsKnownKind(type)

ChildKeys(k) == ChildrenOf(Get(pTree.elements[k], ChildrenKey)).v

\* The element at k is the root, a container that renders.
IsRootContainer(k) ==
  /\ pTree.root = Str(k)
  /\ TypeOf(k).t = "string" /\ TypeOf(k).v \in ContainerKinds
  /\ Get(pTree.elements[k], PropsKey).t = "object"
  /\ ChildrenOf(Get(pTree.elements[k], ChildrenKey)).t = "array"

RootKids == view.out.kids[1].kids

\* C13: an element of a kind the switch has no case for renders, without
\* an error, as the placeholder holding its type name: by itself, as the
\* root of the preview, and as a child of the root container.
C13_UnknownKindPlaceholder ==
  \A k \in DOMAIN pTree.elements :
    IsUnknownKind(TypeOf(k))
    => /\ renderElement(pTree.elements[k], pTree.elements, StackFrames)
            = Rendered(Placeholder(TypeOf(k)))
       /\ pTree.root = Str(k) => view = Rendered(Preview(Placeholder(TypeOf(k))))
       /\ \A j \in DOMAIN pTree.elements :
            (IsRootContainer(j) /\ view.error = "")
            => \A i \in 1..Len(ChildKeys(j)) :
                 ChildKeys(j)[i] = Str(k) => RootKids[i] = Placeholder(TypeOf(k))

Resolves(key) == key.t = "string" /\ key.v \in DOMAIN pTree.elements

ChildRender(key) == renderElement(pTree.elements[key.v], pTree.elements, StackFrames - 1)

\* C14: a root key that is empty or absent from the mapping gives the
\* waiting placeholder alone; a root container whose resolving children
\* render gives, without an error, one output per listed child in the
\* listed order: nothing for a child key absent from the mapping, the
\* child's rendering for the others.
C14_DanglingRendersNothing ==
  /\ (~Truthy(pTree.root) \/ ~Resolves(pTree.root)) => view = Rendered(Waiting(FALSE))
  /\ \A j \in DOMAIN pTree.elements :
       ( /\ IsRootContainer(j)
         /\ \A i \in 1..Len(ChildKeys(j)) :
              Resolves(ChildKeys(j)[i]) => ChildRender(ChildKeys(j)[i]).error = "" )
       => /\ view.error = ""
          /\ Len(RootKids) = Len(ChildKeys(j))
          /\ \A i \in 1..Len(ChildKeys(j)) :
               RootKids[i] = IF Resolves(ChildKeys(j)[i])
                               THEN ChildRender(ChildKeys(j)[i]).out
                               ELSE Nothing

\* C16: rendering the preview of a tree built by patches comes to an end:
\* the nesting of renderElement calls never runs out of stack.
C16_RenderTerminates == view.error # "RangeError"

====
